---- MODULE Spec2Model ----
(***************************************************************************)
(* A model of SamFetch's request handlers (src/web/routes.py) and of the   *)
(* Kies helpers they call (src/samfetch/kies.py).                          *)
(*                                                                         *)
(* Every handler is a coroutine: it runs without interruption from one     *)
(* "await" to the next (client.send, client.aclose, request.respond), so   *)
(* one action of the model is the code of a handler between two such       *)
(* suspension points; other handlers run while it is suspended.            *)
(*                                                                         *)
(* Python values: None is the tuple <<"<None>">>, a string that the code   *)
(* only compares is a TLA+ string, a string that the code takes apart is   *)
(* the tuple of its pieces, an IMEI is the pair <<TAC, serial>>.           *)
(*                                                                         *)
(* The streaming decryptor (samfetch/crypto.py) is not part of the source  *)
(* at hand; it is modelled after section 4.3 of spec.md.                   *)
(***************************************************************************)
EXTENDS Integers, Sequences, FiniteSets, TLC

VARIABLES
    global_imei_bound,  \* whether the module global "global_imei" is bound
    global_imei,        \* its value (routes.py:63-64, read at routes.py:97-98)
    server,             \* the vendor server: the number of nonces it has issued
    latest,             \* the get_firmware_latest handler
    details,            \* the get_binary_details handler
    download,           \* the download_binary handler
    listing,            \* the get_firmware_list handler
    call                \* a call of one of the KiesUtils functions on its own

vars == <<global_imei_bound, global_imei, server, latest, details, download,
          listing, call>>

----------------------------------------------------------------------------
(* Bounds of the model. *)

\* how many serial numbers the IMEI generator can draw for one TAC
NumSerials == 2

\* how many characters a Range header has after (or instead of) "bytes="
MaxTail == 3

\* how many bytes a cipher block has
BlockSize == 2

\* how many cipher blocks a streamed file has at most
MaxBlocks == 2

\* how many components a firmware string given to parse_firmware has at most
MaxComponents == 5

\* how many characters the first component of a firmware string given to
\* read_firmware has at most
MaxPdaLen == 7

----------------------------------------------------------------------------
(* Values. *)

\* Python's None, for a value that is otherwise a string (a tuple of pieces):
\* a tuple that is no string of the model, the empty string "" included.
None == <<"<None>">>

\* "for attempt in range(1, 6)"
MaxAttempts == 5

\* The TAC that the commented-out IMEI of routes.py:122 starts with; web/tacs.csv
\* is taken to hold a row for the requested model, with this TAC first.
Tac == <<"35439911">>

\* Identities a caller can pass as the "imei" query argument.
SuppliedImeis == {Tac \o <<1>>, <<"86000000", 1>>}

OptionalImei == {None} \cup SuppliedImeis

\* The "imei" query argument of a request for binary details, which the
\* handler does not read.
DetailsArgImeis == {None, Tac \o <<1>>}

S200 == <<"2", "0", "0">>
S401 == <<"4", "0", "1">>
S408 == <<"4", "0", "8">>

\* The text of the <Status> element of a binary-info response, digit by digit.
\* "0408" is a status the code compares as a string and converts with int().
StatusTexts == { S200, S401, S408, <<"5", "0", "0">>, <<"0", "4", "0", "8">> }

\* web.exceptions.make_error: the exception a handler ends with.
make_error(kind, code) == [kind |-> "error", error |-> kind, code |-> code]

\* An exception that is no SamfetchError (NameError, ValueError, IndexError,
\* sanic's NotFound, httpx's transport errors).
Raise(name) == [kind |-> "error", error |-> name, code |-> 0]

\* A value a function returns, as opposed to an exception it raises.
Value(v) == [kind |-> "value", value |-> v]

\* The ASCII digits: "[0-9]" of routes.py:103, string.digits, hexadecimal keys.
Digits == {"0", "1", "2", "3", "4", "5", "6", "7", "8", "9"}

\* The decimal digits int() reads (Unicode category Nd), script by script and
\* in the order of their values, of those a TLA+ string can hold: the ASCII
\* digits and the digits of 18 more scripts, from U+06F0 to U+ABF9.
DecimalDigitRows ==
    <<
      <<"0", "1", "2", "3", "4", "5", "6", "7", "8", "9">>,
      <<"۰", "۱", "۲", "۳", "۴", "۵", "۶", "۷", "۸", "۹">>,
      <<"߀", "߁", "߂", "߃", "߄", "߅", "߆", "߇", "߈", "߉">>,
      <<"০", "১", "২", "৩", "৪", "৫", "৬", "৭", "৮", "৯">>,
      <<"૦", "૧", "૨", "૩", "૪", "૫", "૬", "૭", "૮", "૯">>,
      <<"௦", "௧", "௨", "௩", "௪", "௫", "௬", "௭", "௮", "௯">>,
      <<"೦", "೧", "೨", "೩", "೪", "೫", "೬", "೭", "೮", "೯">>,
      <<"෦", "෧", "෨", "෩", "෪", "෫", "෬", "෭", "෮", "෯">>,
      <<"໐", "໑", "໒", "໓", "໔", "໕", "໖", "໗", "໘", "໙">>,
      <<"႐", "႑", "႒", "႓", "႔", "႕", "႖", "႗", "႘", "႙">>,
      <<"០", "១", "២", "៣", "៤", "៥", "៦", "៧", "៨", "៩">>,
      <<"᧐", "᧑", "᧒", "᧓", "᧔", "᧕", "᧖", "᧗", "᧘", "᧙">>,
      <<"᪀", "᪁", "᪂", "᪃", "᪄", "᪅", "᪆", "᪇", "᪈", "᪉">>,
      <<"᪐", "᪑", "᪒", "᪓", "᪔", "᪕", "᪖", "᪗", "᪘", "᪙">>,
      <<"᮰", "᮱", "᮲", "᮳", "᮴", "᮵", "᮶", "᮷", "᮸", "᮹">>,
      <<"꣐", "꣑", "꣒", "꣓", "꣔", "꣕", "꣖", "꣗", "꣘", "꣙">>,
      <<"꧐", "꧑", "꧒", "꧓", "꧔", "꧕", "꧖", "꧗", "꧘", "꧙">>,
      <<"꧰", "꧱", "꧲", "꧳", "꧴", "꧵", "꧶", "꧷", "꧸", "꧹">>,
      <<"꯰", "꯱", "꯲", "꯳", "꯴", "꯵", "꯶", "꯷", "꯸", "꯹">>
    >>

DecimalDigits ==
    { DecimalDigitRows[r][i] : r \in 1..Len(DecimalDigitRows), i \in 1..10 }

\* the value of a decimal digit
DigitValue(c) ==
    CASE c = "0" -> 0 [] c = "1" -> 1 [] c = "2" -> 2 [] c = "3" -> 3
      [] c = "4" -> 4 [] c = "5" -> 5 [] c = "6" -> 6 [] c = "7" -> 7
      [] c = "8" -> 8 [] c = "9" -> 9
      [] OTHER -> CHOOSE n \in 0..9 :
                    \E r \in 1..Len(DecimalDigitRows) : DecimalDigitRows[r][n + 1] = c

\* The characters str.strip() takes for blanks (str.isspace), of those a TLA+
\* string can hold: tab, line feed, vertical tab (U+000B), form feed, carriage
\* return, the four separators U+001C to U+001F, space, next line (U+0085),
\* no-break space (U+00A0) and the Ogham space mark (U+1680). The blanks from
\* U+2000 to U+3000 cannot be written in a TLA+ string.
Whitespace ==
    {"\t", "\n", "", "\f", "\r", "", "", "", "", " ",
     "", " ", " "}

\* The blanks CPython's int() skips around a numeral: those of str.strip()
\* but the four separators U+001C to U+001F.
IntWhitespace == Whitespace \ {"", "", "", ""}

\* str.strip(chars) on a string given character by character
RECURSIVE strip_chars(_, _)
strip_chars(text, chars) ==
    IF text = <<>> THEN text
    ELSE IF Head(text) \in chars THEN strip_chars(Tail(text), chars)
    ELSE IF text[Len(text)] \in chars
    THEN strip_chars(SubSeq(text, 1, Len(text) - 1), chars)
    ELSE text

\* str.strip()
strip(text) == strip_chars(text, Whitespace)

RECURSIVE DecimalValue(_)
DecimalValue(digits) ==
    IF digits = <<>> THEN 0
    ELSE 10 * DecimalValue(SubSeq(digits, 1, Len(digits) - 1))
         + DigitValue(digits[Len(digits)])

\* the characters of the string that are not "_", in order
RECURSIVE without_underscores(_)
without_underscores(text) ==
    IF text = <<>> THEN text
    ELSE IF Head(text) = "_" THEN without_underscores(Tail(text))
    ELSE <<Head(text)>> \o without_underscores(Tail(text))

\* Python's int(text): blanks around, an optional sign, then decimal digits
\* (of any script, and of several at once)
\* with single "_" allowed between two digits; anything else raises ValueError.
int(text) ==
    LET t == strip_chars(text, IntWhitespace)
        signed == t # <<>> /\ Head(t) \in {"-", "+"}
        numeral == IF signed THEN Tail(t) ELSE t
        wellformed ==
            /\ numeral # <<>>
            /\ \A i \in 1..Len(numeral) : numeral[i] \in DecimalDigits \cup {"_"}
            /\ numeral[1] # "_"
            /\ numeral[Len(numeral)] # "_"
            /\ \A i \in 1..(Len(numeral) - 1) :
                  ~(numeral[i] = "_" /\ numeral[i + 1] = "_")
        digits == without_underscores(numeral)
    IN  IF ~wellformed
        THEN Raise("ValueError")
        ELSE Value(IF signed /\ Head(t) = "-" THEN 0 - DecimalValue(digits)
                   ELSE DecimalValue(digits))

\* raise make_error(kind, int(status_code)), routes.py:149 and 153
make_error_int(kind, status_code) ==
    LET code == IF status_code = None THEN Raise("TypeError") ELSE int(status_code)
    IN  IF code.kind = "error" THEN code ELSE make_error(kind, code.value)

NoResult == [kind |-> "none"]

NoRequest == [kind |-> "none"]

NoResponse == [kind |-> "none"]

NoSession == [kind |-> "none"]

----------------------------------------------------------------------------
(* samfetch.session.Session and the vendor server. *)

\* Session.from_response / the derivation of the signature from a nonce: the
\* session is a function of the nonce that produced it.
SessionOf(nonce) == [kind |-> "session", nonce |-> nonce, signature |-> <<"sig", nonce>>]

\* Session.from_response(nonce)
from_response(response) == SessionOf(response.nonce)

\* Session.refresh_session(response): a response that carries a new nonce makes
\* the session derive its signature again; nonce 0 is "no nonce carried".
refresh_session(session, response) ==
    IF response.nonce # 0 THEN SessionOf(response.nonce) ELSE session

\* Session.getv2key(firmware, model, region) and Session.getv4key(version, logic):
\* the version-4 key depends on the session, the version-2 key on the path only.
getv2key(session) == [version |-> 2, signature |-> None]
getv4key(session) == [version |-> 4, signature |-> session.signature]

\* The server's answer to KiesRequest.get_nonce(): the next nonce.
NonceResponse == [kind |-> "nonce", nonce |-> server + 1]

\* The server's answers to KiesRequest.get_binary(): a status, a new nonce or
\* none, and for a 200 a BINARY_NAME that ends in "4" or does not.
BinaryInfoResponses ==
    { r \in [kind : {"binary_info"}, status : StatusTexts,
             nonce : {0, server + 1}, v4 : BOOLEAN] :
        r.v4 => r.status = S200 }

----------------------------------------------------------------------------
(* samfetch.kies *)

\* samfetch.imei.generate_random_imei(tac), behind IMEIGenerator: a
\* pseudo-random IMEI that starts with the TAC. What it makes of the None that
\* read_imei_data returns for a model without a row is not known: it raises,
\* or it returns an identity that starts with the text of None.
generate_random_imei(tac) ==
    IF tac = None
    THEN {Raise("TypeError")} \cup { Value(None \o <<n>>) : n \in 1..NumSerials }
    ELSE { Value(tac \o <<n>>) : n \in 1..NumSerials }

\* web/tacs.csv as the process finds it: no file, or its rows, each a TAC and
\* the models it belongs to.
TacsFiles ==
    {[exists |-> FALSE, rows |-> <<>>]} \cup
    { [exists |-> TRUE, rows |-> rows] : rows \in
        { <<>>,
          << <<"86000000", "SM-A000">> >>,
          << <<"86000000", "SM-A000">>, <<Tac[1], "SM-G960F">> >> } }

\* read_imei_data(csv_path, target_model), routes.py:85-91, on the file at
\* csv_path: the first cell of the first row that holds the model.
read_imei_data(csvfile, target_model) ==
    IF ~csvfile.exists THEN Raise("FileNotFoundError")
    ELSE LET matching == { i \in 1..Len(csvfile.rows) :
                             \E j \in 1..Len(csvfile.rows[i]) :
                                csvfile.rows[i][j] = target_model }
         IN  IF matching = {} THEN Value(None)
             ELSE LET i == CHOOSE k \in matching : \A m \in matching : k <= m
                  IN  Value(<<csvfile.rows[i][1]>>)

\* KiesRequest.get_binary(region, model, firmware, imei, session)
get_binary(imei, session) ==
    [kind |-> "binary_info", imei |-> imei, nonce |-> session.nonce,
     signature |-> session.signature]

\* KiesRequest.get_nonce()
get_nonce == [kind |-> "nonce"]

----------------------------------------------------------------------------
(* KiesUtils.parse_firmware and KiesFirmwareList, kies.py:31-68, 240-249 *)

\* A firmware string is the tuple of its "/"-separated components (what
\* str.split("/") gives), a component the tuple of its characters: the empty
\* string is <<<<>>>>, "A/B/" is <<<<"A">>, <<"B">>, <<>>>>.
parse_firmware(firmware) ==
    IF firmware = <<<<>>>> THEN Raise("ValueError")
    ELSE LET l == IF Len(firmware) = 3 THEN Append(firmware, firmware[1])
                  ELSE firmware
         IN  IF Len(l) < 3 THEN Raise("IndexError")
             ELSE Value(IF l[3] = <<>> THEN [l EXCEPT ![3] = l[1]] ELSE l)

\* Components of the firmware strings the catalog server is modelled to send.
G960FXXU1ASCD == <<"G","9","6","0","F","X","X","U","1","A","S","C","D">>
G960FOXM1ASC1 == <<"G","9","6","0","F","O","X","M","1","A","S","C","1">>
S1ASA1 == <<"S","1","A","S","A","1">>
XAAAS1A == <<"X","A","A","A","S","1","A">>
B == <<"B">>

\* The firmware strings of the manifests: of 1 to 5 components, with an empty
\* third component, with a first component shorter than a build code.
FirmwareTexts ==
    { <<G960FXXU1ASCD, G960FOXM1ASC1, G960FXXU1ASCD, G960FXXU1ASCD>>,
      <<S1ASA1, B, B>>, <<S1ASA1, B, <<>>, B>>, <<XAAAS1A, B, B, B>>,
      <<B, B, B, B>>, <<S1ASA1, B>>, <<B>>, <<S1ASA1, B, B, B, B>> }

\* What xmltodict makes of an element: None when it is empty, the text when it
\* has no attribute, a dict with the text under "#text" when it has some.
NoElement == [type |-> "NoneType"]
ElementsOf(texts) ==
    { [type |-> t, text |-> f] : t \in {"str", "dict"}, f \in texts }

\* How many <value> elements the manifest's <upgrade> holds at most.
MaxUpgrade == 2

\* The "value" of <upgrade>: None, one dict, or a list of dicts.
UpgradeValues ==
    {NoElement}
    \cup { [type |-> "dict", text |-> f] : f \in FirmwareTexts }
    \cup { [type |-> "list", items |-> items] :
             items \in UNION { [1..n -> FirmwareTexts] : n \in 1..MaxUpgrade } }

\* The manifests the catalog server can answer with: without "versioninfo",
\* with versions that hold no "latest", an empty "latest", or a firmware.
Manifests ==
    { [versioninfo |-> v[1], has_latest |-> v[2], latest |-> v[3], upgrade |-> u] :
        v \in { <<FALSE, FALSE, NoElement>>, <<TRUE, FALSE, NoElement>> }
              \cup { <<TRUE, TRUE, e>> : e \in {NoElement} \cup ElementsOf(FirmwareTexts) },
        u \in UpgradeValues }

\* get_firmware_latest reads nothing of <upgrade> (kies.py:43-57) and takes a
\* "latest" with attributes like one without: its manifests are the ones with
\* an empty <upgrade> and no attribute, with a firmware of 3 components.
LatestManifests ==
    { m \in Manifests :
        /\ m.upgrade = NoElement
        /\ m.latest # NoElement =>
              /\ m.latest.type = "str"
              /\ m.latest.text = <<S1ASA1, B, B>> }

\* KiesFirmwareList.latest, kies.py:49-57. Without <versioninfo> the object's
\* _versions is None and the test '"latest" not in self._versions' raises.
latest_of(manifest) ==
    IF ~manifest.versioninfo THEN Raise("TypeError")
    ELSE IF ~manifest.has_latest THEN Value(None)
    ELSE IF manifest.latest.type \in {"str", "dict"}
    THEN parse_firmware(manifest.latest.text)
    ELSE Value(None)

----------------------------------------------------------------------------
(* KiesUtils.read_firmware and read_firmware_dict, kies.py:266-291 *)

UppercaseLetters ==
    <<"A", "B", "C", "D", "E", "F", "G", "H", "I", "J", "K", "L", "M",
      "N", "O", "P", "Q", "R", "S", "T", "U", "V", "W", "X", "Y", "Z">>

LowercaseLetters ==
    <<"a", "b", "c", "d", "e", "f", "g", "h", "i", "j", "k", "l", "m",
      "n", "o", "p", "q", "r", "s", "t", "u", "v", "w", "x", "y", "z">>

\* the character of a digit value
DigitChar(n) == CHOOSE c \in Digits : DigitValue(c) = n

\* string.digits + string.ascii_uppercase
DigitsAndUppercase == [i \in 1..10 |-> DigitChar(i - 1)] \o UppercaseLetters

\* whether the string (a tuple of characters) holds the character
Contains(chars, c) == \E i \in 1..Len(chars) : chars[i] = c

\* str.index(c), counted from 0; the caller checks Contains first
index(chars, c) == (CHOOSE i \in 1..Len(chars) : chars[i] = c) - 1

\* Python's ord(c) for a digit or a letter
ord(c) ==
    IF c \in Digits THEN 48 + DigitValue(c)
    ELSE IF Contains(UppercaseLetters, c) THEN 65 + index(UppercaseLetters, c)
    ELSE 97 + index(LowercaseLetters, c)

\* text[-n:], the last n characters of a string (all of a shorter one)
LastChars(text, n) ==
    SubSeq(text, IF Len(text) > n THEN Len(text) - n + 1 ELSE 1, Len(text))

\* An entry of read_firmware's result that is an int or None: the int n is
\* <<"int", n>>, set apart from None by its length.
Some(n) == <<"int", n>>

\* read_firmware on the first 6 characters of the first component, not the last
read_firmware_FirstChars(firmware) ==
    IF Len(firmware) - 1 # 3 THEN Raise("ValueError")
    ELSE LET pda == SubSeq(firmware[1], 1, IF Len(firmware[1]) > 6 THEN 6 ELSE Len(firmware[1]))
             n == Len(pda)
         IN  IF n = 0 THEN Raise("IndexError")
             ELSE IF pda[1] \in {"U", "S"}
             THEN IF n < 6 THEN Raise("IndexError")
                  ELSE IF ~Contains(DigitsAndUppercase, pda[6])
                  THEN Raise("ValueError")
                  ELSE Value(<<SubSeq(pda, 1, 2),
                               Some(ord(pda[3]) - ord("A")),
                               (ord(pda[4]) - ord("R")) + 2018,
                               ord(pda[5]) - ord("A"),
                               index(DigitsAndUppercase, pda[6])>>)
             ELSE IF n < 3 THEN Raise("IndexError")
                  ELSE IF ~Contains(DigitsAndUppercase, pda[n])
                  THEN Raise("ValueError")
                  ELSE Value(<<None, None,
                               (ord(pda[n - 2]) - ord("R")) + 2018,
                               ord(pda[n - 1]) - ord("A"),
                               index(DigitsAndUppercase, pda[n])>>)

\* KiesUtils.read_firmware, kies.py:266-282.  pda[i] of the code is pda[i + 1]
\* here.  The result is the list [bl, it index, year, month, revision].
read_firmware(firmware) ==
    IF Len(firmware) - 1 # 3 THEN Raise("ValueError")
    ELSE LET pda == LastChars(firmware[1], 6)
             n == Len(pda)
         IN  IF n = 0 THEN Raise("IndexError")
             ELSE IF pda[1] \in {"U", "S"}
             THEN IF n < 6 THEN Raise("IndexError")
                  ELSE IF ~Contains(DigitsAndUppercase, pda[6])
                  THEN Raise("ValueError")
                  ELSE Value(<<SubSeq(pda, 1, 2),
                               Some(ord(pda[3]) - ord("A")),
                               (ord(pda[4]) - ord("R")) + 2018,
                               ord(pda[5]) - ord("A"),
                               index(DigitsAndUppercase, pda[6])>>)
             ELSE IF n < 3 THEN Raise("IndexError")
                  ELSE IF ~Contains(DigitsAndUppercase, pda[n])
                  THEN Raise("ValueError")
                  ELSE Value(<<None, None,
                               (ord(pda[n - 2]) - ord("R")) + 2018,
                               ord(pda[n - 1]) - ord("A"),
                               index(DigitsAndUppercase, pda[n])>>)

\* the decimal digits of a natural number
RECURSIVE digits_of(_)
digits_of(n) ==
    IF n < 10 THEN <<DigitChar(n)>>
    ELSE digits_of(n \div 10) \o <<DigitChar(n % 10)>>

\* Python's str() of an int, and of an entry that is an int or None
str(n) == IF n < 0 THEN <<"-">> \o digits_of(0 - n) ELSE digits_of(n)
str_or_None(e) == IF e = None THEN <<"N", "o", "n", "e">> ELSE str(e[2])

\* read_firmware_dict with "date" made of the month and the revision
read_firmware_dict_DateOfMonth(firmware) ==
    LET ff == read_firmware(firmware) IN
    IF ff.kind = "error" THEN ff
    ELSE Value([bl |-> ff.value[1],
                date |-> str(ff.value[4]) \o <<".">> \o str(ff.value[5]),
                it |-> str_or_None(ff.value[2]) \o <<".">> \o str(ff.value[5])])

\* KiesUtils.read_firmware_dict, kies.py:284-291
read_firmware_dict(firmware) ==
    LET ff == read_firmware(firmware) IN
    IF ff.kind = "error" THEN ff
    ELSE Value([bl |-> ff.value[1],
                date |-> str(ff.value[3]) \o <<".">> \o str(ff.value[4]),
                it |-> str_or_None(ff.value[2]) \o <<".">> \o str(ff.value[5])])

\* The HTTP status of the catalog server's answer.
HttpStatuses == {200, 404}

----------------------------------------------------------------------------
(* get_firmware_latest, routes.py:56-81 *)

\* The handler's client and the answer it got.
LatestIdle ==
    [pc |-> "idle", download |-> FALSE, clients_open |-> 0,
     response |-> NoResponse, result |-> NoResult]

\* routes.py:58-66: the request arrives, its "imei" argument (or None) is
\* stored in the module global, and the manifest is requested.
LatestStart ==
    /\ latest.pc = "idle"
    /\ \E imei \in OptionalImei, with_download \in BOOLEAN :
         /\ global_imei' = imei
         /\ global_imei_bound' = TRUE
         /\ latest' = [pc |-> "list_wait", download |-> with_download,
                       clients_open |-> 1, response |-> NoResponse,
                       result |-> NoResult]
    /\ UNCHANGED <<listing, call, server, details, download>>

\* routes.py:70-81, with KiesFirmwareList.exists (kies.py:43-47)
LatestResult(status_code, manifest, with_download) ==
    IF status_code # 200 THEN make_error("DEVICE_NOT_FOUND", status_code)
    ELSE IF ~manifest.versioninfo THEN make_error("FIRMWARE_LIST_EMPTY", 404)
    ELSE LET l == latest_of(manifest) IN
         IF l.kind = "error" THEN l
         ELSE IF l.value = None THEN make_error("FIRMWARE_CANT_PARSE", 404)
         ELSE [kind |-> "redirect", firmware |-> l.value, download |-> with_download]

\* routes.py:66-69: the manifest arrives; the handler waits for its client to
\* close.
LatestManifest ==
    /\ latest.pc = "list_wait"
    /\ \E status_code \in HttpStatuses, manifest \in LatestManifests :
         latest' = [latest EXCEPT !.pc = "closing",
                      !.response = [kind |-> "response",
                                    status_code |-> status_code,
                                    manifest |-> manifest]]
    /\ UNCHANGED <<listing, call, global_imei_bound, global_imei, server, details, download>>

\* routes.py:69-81: the client is closed and the handler answers.
LatestClosed ==
    /\ latest.pc = "closing"
    /\ latest' = [latest EXCEPT !.pc = "idle", !.clients_open = 0,
                    !.response = NoResponse,
                    !.result = LatestResult(latest.response.status_code,
                                            latest.response.manifest,
                                            latest.download)]
    /\ UNCHANGED <<listing, call, global_imei_bound, global_imei, server, details, download>>

----------------------------------------------------------------------------
(* get_firmware_list, routes.py:18-54 *)

\* The first error among a sequence of results, or the sequence of their values.
all_or_first_error(results) ==
    IF \E i \in 1..Len(results) : results[i].kind = "error"
    THEN results[CHOOSE i \in 1..Len(results) :
                   /\ results[i].kind = "error"
                   /\ \A j \in 1..(i - 1) : results[j].kind # "error"]
    ELSE Value([i \in 1..Len(results) |-> results[i].value])

\* text.count("/") > 1 on a firmware string given by its components
more_than_one_slash(text) == Len(text) - 1 > 1

\* text.count("/") > 2
more_than_two_slashes(text) == Len(text) - 1 > 2

\* alternate with the entries of fewer than three separators removed
alternate_MoreThanTwo(manifest) ==
    LET upgrade == manifest.upgrade IN
    IF ~manifest.versioninfo THEN Raise("TypeError")
    ELSE IF upgrade.type = "NoneType" THEN Value(<<>>)
    ELSE IF upgrade.type = "list"
    THEN LET kept == SelectSeq(upgrade.items, more_than_two_slashes)
         IN  all_or_first_error([i \in 1..Len(kept) |-> parse_firmware(kept[i])])
    ELSE IF upgrade.type = "dict"
    THEN IF more_than_two_slashes(upgrade.text)
         THEN all_or_first_error(<<parse_firmware(upgrade.text)>>)
         ELSE Value(<<>>)
    ELSE Value(<<>>)

\* KiesFirmwareList.alternate, kies.py:59-68. Without <versioninfo> the object's
\* _versions is None and the subscript of line 61 raises.
alternate(manifest) ==
    LET upgrade == manifest.upgrade IN
    IF ~manifest.versioninfo THEN Raise("TypeError")
    ELSE IF upgrade.type = "NoneType" THEN Value(<<>>)
    ELSE IF upgrade.type = "list"
    THEN LET kept == SelectSeq(upgrade.items, more_than_one_slash)
         IN  all_or_first_error([i \in 1..Len(kept) |-> parse_firmware(kept[i])])
    ELSE IF upgrade.type = "dict"
    THEN IF more_than_one_slash(upgrade.text)
         THEN all_or_first_error(<<parse_firmware(upgrade.text)>>)
         ELSE Value(<<>>)
    ELSE Value(<<>>)

\* routes.py:40-48: one element of the listing; only the first has "is_latest"
list_entry(i, f, info) ==
    IF i = 1 THEN [firmware |-> f, is_latest |-> TRUE, pda |-> info]
    ELSE [firmware |-> f, pda |-> info]

\* routes.py:29-54, with KiesFirmwareList.exists (kies.py:43-47)
ListResult(status_code, manifest) ==
    IF status_code # 200 THEN make_error("DEVICE_NOT_FOUND", status_code)
    ELSE IF ~manifest.versioninfo THEN make_error("FIRMWARE_LIST_EMPTY", 404)
    ELSE LET l == latest_of(manifest) IN
         IF l.kind = "error" THEN l
         ELSE IF l.value = None THEN make_error("FIRMWARE_CANT_PARSE", 404)
         ELSE LET a == alternate(manifest) IN
              IF a.kind = "error" THEN a
              ELSE LET fs == <<l.value>> \o a.value
                       infos == all_or_first_error(
                                    [i \in 1..Len(fs) |-> read_firmware_dict(fs[i])])
                   IN  IF infos.kind = "error" THEN infos
                       ELSE [kind |-> "json",
                             body |-> [i \in 1..Len(fs) |->
                                         list_entry(i, fs[i], infos.value[i])]]

\* The route's <region> and <model> segments.
Regions == {"EUX", "XAR"}
Models == {"SM-G960F"}

\* KiesRequest.list_firmware(region, model)
list_firmware(region, model) ==
    [kind |-> "list_firmware", region |-> region, model |-> model]

\* The handler's client, the request it sent and the answer it got.
ListingIdle ==
    [pc |-> "idle", clients_open |-> 0, request |-> NoRequest,
     response |-> NoResponse, result |-> NoResult]

\* routes.py:23-26: the request arrives and the manifest is requested.
ListStart ==
    /\ listing.pc = "idle"
    /\ \E region \in Regions, model \in Models :
         listing' = [listing EXCEPT !.pc = "list_wait", !.clients_open = 1,
                                    !.request = list_firmware(region, model)]
    /\ UNCHANGED <<global_imei_bound, global_imei, server, latest, details,
                   download, call>>

\* routes.py:24-27: the manifest arrives; the handler waits for its client to
\* close.
ListManifest ==
    /\ listing.pc = "list_wait"
    /\ \E status_code \in HttpStatuses, manifest \in Manifests :
         listing' = [listing EXCEPT
                       !.pc = "closing",
                       !.response = [kind |-> "response",
                                     status_code |-> status_code,
                                     manifest |-> manifest]]
    /\ UNCHANGED <<global_imei_bound, global_imei, server, latest, details,
                   download, call>>

\* routes.py:27-54: the client is closed and the handler answers.
ListClosed ==
    /\ listing.pc = "closing"
    /\ listing' = [listing EXCEPT
                     !.pc = "done", !.clients_open = 0,
                     !.result = ListResult(listing.response.status_code,
                                           listing.response.manifest)]
    /\ UNCHANGED <<global_imei_bound, global_imei, server, latest, details,
                   download, call>>

----------------------------------------------------------------------------
(* get_binary_details, routes.py:94-212 *)

Slash == <<"/">>

SlashDownload == <<"/", "d", "o", "w", "n", "l", "o", "a", "d">>

\* "/".join(parts) of strings given character by character
RECURSIVE join(_)
join(parts) ==
    IF parts = <<>> THEN <<>>
    ELSE IF Len(parts) = 1 THEN parts[1]
    ELSE parts[1] \o Slash \o join(Tail(parts))

\* text.split("/"): the pieces between the "/" of the string, in order
RECURSIVE split(_)
split(text) ==
    IF \A i \in 1..Len(text) : text[i] # "/" THEN <<text>>
    ELSE LET i == CHOOSE k \in 1..Len(text) :
                    text[k] = "/" /\ \A j \in 1..(k - 1) : text[j] # "/"
         IN  <<SubSeq(text, 1, i - 1)>> \o split(SubSeq(text, i + 1, Len(text)))

\* The firmwares of the route: one whose first component is no build code, one
\* whose first component read_firmware can decode.
RouteFirmwares == { <<<<"A">>, B, <<"C">>, <<"D">>>>, <<S1ASA1, B, B, B>> }

\* The firmware_path segment of the route: a firmware followed by what the
\* route's "[/download]*" lets through.
FirmwarePaths ==
    { join(f) \o tail : f \in RouteFirmwares, tail \in
        {<<>>} \cup { a : a \in {Slash, SlashDownload} }
               \cup { a \o b : a \in {Slash, SlashDownload},
                                b \in {Slash, SlashDownload} } }

\* str.endswith(suffix)
endswith(text, suffix) ==
    Len(text) >= Len(suffix)
    /\ SubSeq(text, Len(text) - Len(suffix) + 1, Len(text)) = suffix

\* str.removesuffix(suffix)
removesuffix(text, suffix) ==
    IF endswith(text, suffix) THEN SubSeq(text, 1, Len(text) - Len(suffix))
    ELSE text

\* routes.py:100
is_download_of(firmware_path) ==
    endswith(removesuffix(firmware_path, Slash), SlashDownload)

\* routes.py:101
firmware_of(firmware_path) ==
    removesuffix(removesuffix(firmware_path, Slash), SlashDownload)

\* routes.py:103, re.match(r"^[A-Z0-9]*/[A-Z0-9]*/[A-Z0-9]*/[A-Z0-9]*$", firmware);
\* "$" matches at the end of the string and also just before a line feed that
\* ends it.
firmware_matches(firmware) ==
    LET matched == IF firmware # <<>> /\ firmware[Len(firmware)] = "\n"
                   THEN SubSeq(firmware, 1, Len(firmware) - 1)
                   ELSE firmware
    IN  /\ Len(split(matched)) = 4
        /\ \A i \in 1..Len(matched) :
              matched[i] = "/" \/ matched[i] \in Digits
                              \/ Contains(UppercaseLetters, matched[i])

\* The handler's locals under their names in the code, and what the network
\* saw of it: the requests sent (nonce_sent, binary_sent), the request in
\* flight, the nonces and the <Status> texts received, attempt by attempt.
DetailsIdle ==
    [pc |-> "idle", args_imei |-> None, is_download |-> FALSE, firmware |-> <<>>,
     request_imei |-> None, imei_data |-> None, imei |-> None, attempt |-> 0,
     status_code |-> None, session |-> NoSession, binary_info |-> NoResponse,
     clients_open |-> 0, nonce_sent |-> 0, binary_sent |-> 0,
     inflight |-> NoRequest, nonces |-> <<>>, statuses |-> <<>>,
     result |-> NoResult]

\* routes.py:117-118: IMEIGenerator is called only when no identity was supplied.
Generated(d) ==
    IF d.request_imei = None THEN generate_random_imei(d.imei_data)
    ELSE {Value(None)}

\* BeginAttempt with the supplied identity read from the module global on every
\* pass instead of from the handler's copy.
BeginAttempt_ReadsGlobal(d, generated) ==
    IF d.request_imei = None /\ generated.kind = "error"
    THEN [d EXCEPT !.attempt = d.attempt + 1, !.pc = "done", !.result = generated]
    ELSE
    [d EXCEPT !.attempt = d.attempt + 1,
              !.imei = IF d.request_imei = None THEN generated.value ELSE global_imei,
              !.clients_open = d.clients_open + 1,
              !.nonce_sent = d.nonce_sent + 1,
              !.inflight = get_nonce,
              !.pc = "nonce_wait"]

\* routes.py:116-126: the head of one pass of the loop, up to the nonce request.
\* "generated" is what IMEIGenerator does if it is called: the identity it
\* returns, or the exception it raises, which leaves the handler.
BeginAttempt(d, generated) ==
    IF d.request_imei = None /\ generated.kind = "error"
    THEN [d EXCEPT !.attempt = d.attempt + 1, !.pc = "done", !.result = generated]
    ELSE
    [d EXCEPT !.attempt = d.attempt + 1,
              !.imei = IF d.request_imei = None THEN generated.value ELSE d.imei_data,
              !.clients_open = d.clients_open + 1,
              !.nonce_sent = d.nonce_sent + 1,
              !.inflight = get_nonce,
              !.pc = "nonce_wait"]

\* routes.py:95-126: the request arrives; the handler runs to its first await.
DetailsStart ==
    /\ details.pc = "idle"
    /\ \E args_imei \in DetailsArgImeis, firmware_path \in FirmwarePaths,
          model \in Models, csvfile \in TacsFiles :
         LET d0 == [details EXCEPT !.args_imei = args_imei] IN
         IF ~global_imei_bound
         THEN \* routes.py:98 reads a global that no request has bound
              details' = [d0 EXCEPT !.pc = "done", !.result = Raise("NameError")]
         ELSE
         LET d1 == [d0 EXCEPT !.request_imei = global_imei,
                              !.is_download = is_download_of(firmware_path),
                              !.firmware = firmware_of(firmware_path)]
             row == read_imei_data(csvfile, model)
         IN  IF ~firmware_matches(d1.firmware)
             THEN details' = [d1 EXCEPT !.pc = "done", !.result = Raise("NotFound")]
             ELSE IF global_imei # None
             THEN details' = BeginAttempt([d1 EXCEPT !.imei_data = global_imei],
                                          Value(None))
             ELSE IF row.kind = "error"
             THEN details' = [d1 EXCEPT !.pc = "done", !.result = row]
             ELSE LET d2 == [d1 EXCEPT !.imei_data = row.value]
                  IN  \E generated \in Generated(d2) :
                        details' = BeginAttempt(d2, generated)
    /\ UNCHANGED <<listing, call, global_imei_bound, global_imei, server, latest, download>>

\* routes.py:126-131: the nonce arrives, the session is made of it and the
\* binary-info request is sent with it.
DetailsNonce ==
    /\ details.pc = "nonce_wait"
    /\ LET session == from_response(NonceResponse) IN
       details' = [details EXCEPT !.session = session,
                                  !.nonces = Append(details.nonces, NonceResponse.nonce),
                                  !.binary_sent = details.binary_sent + 1,
                                  !.inflight = get_binary(details.imei, session),
                                  !.pc = "binary_wait"]
    /\ server' = server + 1
    /\ UNCHANGED <<listing, call, global_imei_bound, global_imei, latest, download>>

\* routes.py:126: the nonce request fails in the transport; the exception leaves
\* the handler before the try block, the client stays open.
DetailsNonceFails ==
    /\ details.pc = "nonce_wait"
    /\ details' = [details EXCEPT !.inflight = NoRequest, !.pc = "done",
                                  !.result = Raise("TransportError")]
    /\ UNCHANGED <<listing, call, global_imei_bound, global_imei, server, latest, download>>

\* routes.py:159-209: the answer of a lookup that found a 200: the redirect to
\* the download, or the JSON body, which holds what read_firmware_dict makes of
\* the firmware; an exception of read_firmware_dict leaves the handler.
DetailsSuccess(d) ==
    LET ENCRYPT_VERSION == IF d.binary_info.v4 THEN 4 ELSE 2
        decryption_key == IF ENCRYPT_VERSION = 2 THEN getv2key(d.session)
                          ELSE getv4key(d.session)
        pda == read_firmware_dict(split(d.firmware))
    IN  IF d.is_download
        THEN [kind |-> "redirect",
              metadata |-> d.binary_info,
              encrypt_version |-> ENCRYPT_VERSION,
              decrypt_key |-> decryption_key,
              imei |-> d.imei]
        ELSE IF pda.kind = "error" THEN pda
        ELSE [kind |-> "json",
              metadata |-> d.binary_info,
              encrypt_version |-> ENCRYPT_VERSION,
              decrypt_key |-> decryption_key,
              pda |-> pda.value,
              imei |-> d.imei,
              firmware |-> d.firmware]

\* AfterBinaryInfo with a loop that runs "range(1, 7)": a sixth pass.
AfterBinaryInfo_SixthPass(d, generated) ==
    LET closed == [d EXCEPT !.clients_open = d.clients_open - 1, !.inflight = NoRequest]
    IN  IF d.status_code = S200
        THEN [closed EXCEPT !.pc = "done", !.result = DetailsSuccess(closed)]
        ELSE IF d.status_code = S408
        THEN IF d.attempt < MaxAttempts + 1
             THEN BeginAttempt(closed, generated)
             ELSE [closed EXCEPT !.pc = "done",
                                 !.result = make_error("MAX_RETRY_EXCEEDED", 500)]
        ELSE IF d.status_code = S401
        THEN [closed EXCEPT !.pc = "done",
                !.result = make_error_int("UNAUTHORIZED", d.status_code)]
        ELSE [closed EXCEPT !.pc = "done",
                !.result = make_error_int("UNKNOWN_ERROR", d.status_code)]

\* AfterBinaryInfo without the "elif status_code == '401'" branch's raise: a 401
\* is logged like a 408 and the loop goes on.
AfterBinaryInfo_Retries401(d, generated) ==
    LET closed == [d EXCEPT !.clients_open = d.clients_open - 1, !.inflight = NoRequest]
    IN  IF d.status_code = S200
        THEN [closed EXCEPT !.pc = "done", !.result = DetailsSuccess(closed)]
        ELSE IF d.status_code \in {S408, S401}
        THEN IF d.attempt < MaxAttempts
             THEN BeginAttempt(closed, generated)
             ELSE [closed EXCEPT !.pc = "done",
                                 !.result = make_error("MAX_RETRY_EXCEEDED", 500)]
        ELSE [closed EXCEPT !.pc = "done",
                !.result = make_error_int("UNKNOWN_ERROR", d.status_code)]

\* AfterBinaryInfo with an "else" branch that only logs: every status but 200
\* and 401 starts another pass.
AfterBinaryInfo_RetriesUnknown(d, generated) ==
    LET closed == [d EXCEPT !.clients_open = d.clients_open - 1, !.inflight = NoRequest]
    IN  IF d.status_code = S200
        THEN [closed EXCEPT !.pc = "done", !.result = DetailsSuccess(closed)]
        ELSE IF d.status_code = S401
        THEN [closed EXCEPT !.pc = "done",
                !.result = make_error_int("UNAUTHORIZED", d.status_code)]
        ELSE IF d.attempt < MaxAttempts
        THEN BeginAttempt(closed, generated)
        ELSE [closed EXCEPT !.pc = "done",
                            !.result = make_error("MAX_RETRY_EXCEEDED", 500)]

\* routes.py:136-156 and what follows the loop's pass: the status of the
\* response decides between leaving the loop, another pass and an exception;
\* the finally clause closes the client in each case.
AfterBinaryInfo(d, generated) ==
    LET closed == [d EXCEPT !.clients_open = d.clients_open - 1, !.inflight = NoRequest]
    IN  IF d.status_code = S200
        THEN [closed EXCEPT !.pc = "done", !.result = DetailsSuccess(closed)]
        ELSE IF d.status_code = S408
        THEN IF d.attempt < MaxAttempts
             THEN BeginAttempt(closed, generated)
             ELSE [closed EXCEPT !.pc = "done",
                                 !.result = make_error("MAX_RETRY_EXCEEDED", 500)]
        ELSE IF d.status_code = S401
        THEN [closed EXCEPT !.pc = "done",
                !.result = make_error_int("UNAUTHORIZED", d.status_code)]
        ELSE [closed EXCEPT !.pc = "done",
                !.result = make_error_int("UNKNOWN_ERROR", d.status_code)]

\* routes.py:131-156: the binary-info response arrives and its status is read;
\* whether the pass ends in "break", in the 408 branch or in a raise, the
\* finally clause is entered and the handler waits for its client to close.
DetailsBinaryInfo ==
    /\ details.pc = "binary_wait"
    /\ \E binary_info \in BinaryInfoResponses :
         details' = [details EXCEPT !.binary_info = binary_info,
                                    !.status_code = binary_info.status,
                                    !.statuses = Append(details.statuses, binary_info.status),
                                    !.inflight = NoRequest,
                                    !.pc = "closing"]
    /\ server' = server + 1
    /\ UNCHANGED <<listing, call, global_imei_bound, global_imei, latest, download>>

\* routes.py:156 and what follows it: the client is closed; then the next pass
\* begins (116-126), the answer is made (159-212) or the exception raised in
\* the try block leaves the handler.
DetailsClosed ==
    /\ details.pc = "closing"
    /\ \E generated \in Generated(details) :
         details' = AfterBinaryInfo(details, generated)
    /\ UNCHANGED <<listing, call, global_imei_bound, global_imei, server, latest, download>>

\* routes.py:131: the binary-info request fails in the transport; the finally
\* clause is entered with the exception.
DetailsBinaryInfoFails ==
    /\ details.pc = "binary_wait"
    /\ details' = [details EXCEPT !.inflight = NoRequest, !.pc = "closing_failed"]
    /\ UNCHANGED <<listing, call, global_imei_bound, global_imei, server, latest, download>>

\* routes.py:156 after a transport failure: the client is closed and the
\* exception leaves the handler.
DetailsClosedFailed ==
    /\ details.pc = "closing_failed"
    /\ details' = [details EXCEPT !.clients_open = details.clients_open - 1,
                                  !.pc = "done",
                                  !.result = Raise("TransportError")]
    /\ UNCHANGED <<listing, call, global_imei_bound, global_imei, server, latest, download>>

----------------------------------------------------------------------------
(* KiesUtils.parse_range_header, kies.py:251-256 *)

BytesPrefix == <<"b", "y", "t", "e", "s", "=">>

\* str.removeprefix(prefix)
removeprefix(text, prefix) ==
    IF Len(text) >= Len(prefix) /\ SubSeq(text, 1, Len(prefix)) = prefix
    THEN SubSeq(text, Len(prefix) + 1, Len(text)) ELSE text

\* str.split("-", maxsplit=1): one part without a "-", else the parts before and
\* after the first "-"
split_once(text) ==
    IF \A i \in 1..Len(text) : text[i] # "-" THEN <<text>>
    ELSE LET i == CHOOSE k \in 1..Len(text) :
                    text[k] = "-" /\ \A j \in 1..(k - 1) : text[j] # "-"
         IN  <<SubSeq(text, 1, i - 1), SubSeq(text, i + 1, Len(text))>>

\* int(part or 0)
int_or_0(part) == IF part = <<>> THEN Value(0) ELSE int(part)

\* parse_range_header with a missing end counted as -1 instead of 0
parse_range_header_OpenEndUnknown(header) ==
    LET ran == split_once(removeprefix(strip(header), BytesPrefix)) IN
    IF Len(ran) # 2 THEN Value(<<-1, -1>>)
    ELSE LET a == int_or_0(ran[1])
             b == IF ran[2] = <<>> THEN Value(-1) ELSE int(ran[2])
         IN  IF a.kind = "error" THEN a
             ELSE IF b.kind = "error" THEN b
             ELSE Value(<<a.value, b.value>>)

parse_range_header(header) ==
    LET ran == split_once(removeprefix(strip(header), BytesPrefix)) IN
    IF Len(ran) # 2 THEN Value(<<-1, -1>>)
    ELSE LET a == int_or_0(ran[1])
             b == int_or_0(ran[2])
         IN  IF a.kind = "error" THEN a
             ELSE IF b.kind = "error" THEN b
             ELSE Value(<<a.value, b.value>>)

\* The characters a Range header is made of in the model.
RangeChars == {"0", "5", "-", " ", "_", "x"}

RangeTails == UNION { [1..n -> RangeChars] : n \in 0..MaxTail }

\* request.headers.get("Range"): no header, or a header with or without "bytes="
RangeHeaders ==
    {None} \cup RangeTails \cup { BytesPrefix \o tail : tail \in RangeTails }

----------------------------------------------------------------------------
(* download_binary, routes.py:214-300 *)

\* The "decrypt" and "filename" query arguments: no key, two keys in
\* hexadecimal, and a key that is not hexadecimal.
DecryptKeys == {None, <<"0", "a">>, <<"0", "B">>, <<"k">>}
FilenameArgs == {None, <<"m", "y">>, <<"m", "y", ".", "z", "i", "p">>}

DotZip == <<".", "z", "i", "p">>
DotEnc4 == <<".", "e", "n", "c", "4">>
DotEnc2 == <<".", "e", "n", "c", "2">>

\* The firmware segment of the route, "FW.zip.enc4": the file's name.
Filename == <<"F", "W">> \o DotZip \o DotEnc4

\* str.replace(old, ""): the string without the occurrences of old, found from
\* the left and not overlapping
RECURSIVE without(_, _)
without(text, old) ==
    IF Len(text) < Len(old) THEN text
    ELSE IF SubSeq(text, 1, Len(old)) = old
    THEN without(SubSeq(text, Len(old) + 1, Len(text)), old)
    ELSE <<Head(text)>> \o without(Tail(text), old)

\* routes.py:271, 'attachment; filename="'
AttachmentFilename ==
    <<"a", "t", "t", "a", "c", "h", "m", "e", "n", "t", ";", " ",
      "f", "i", "l", "e", "n", "a", "m", "e", "=", "\"">>

\* routes.py:225
CUSTOM_FILENAME_of(filename_arg) ==
    IF filename_arg = None THEN None
    ELSE removesuffix(filename_arg, DotZip) \o DotZip

\* routes.py:224
DECRYPT_ENABLED_of(decrypt_key) == decrypt_key # None

\* the value of a hexadecimal digit
HexDigits == Digits \cup {"a", "b", "c", "d", "e", "f", "A", "B", "C", "D", "E", "F"}
HexValue(c) ==
    IF c \in Digits THEN DigitValue(c)
    ELSE IF Contains(UppercaseLetters, c) THEN 10 + index(UppercaseLetters, c)
    ELSE 10 + index(LowercaseLetters, c)

\* The blanks bytes.fromhex skips: the ASCII ones.
AsciiWhitespace == {" ", "\t", "\n", "", "\f", "\r"}

\* bytes.fromhex(text), routes.py:296: two hexadecimal digits for each byte,
\* ASCII blanks skipped before and after a byte, anything else raises ValueError
RECURSIVE fromhex(_)
fromhex(text) ==
    IF text = <<>> THEN Value(<<>>)
    ELSE IF Head(text) \in AsciiWhitespace THEN fromhex(Tail(text))
    ELSE IF Len(text) < 2 \/ text[1] \notin HexDigits \/ text[2] \notin HexDigits
    THEN Raise("ValueError")
    ELSE LET rest == fromhex(SubSeq(text, 3, Len(text)))
         IN  IF rest.kind = "error" THEN rest
             ELSE Value(<<16 * HexValue(text[1]) + HexValue(text[2])>> \o rest.value)

\* KiesRequest.get_download(path, session)
get_download(session) ==
    [kind |-> "download_info", nonce |-> session.nonce, signature |-> session.signature]

\* KiesRequest.start_download(path, session, custom_range): an absent or empty
\* Range header is not sent on
start_download(session, custom_range) ==
    [kind |-> "download", nonce |-> session.nonce, signature |-> session.signature,
     range |-> IF custom_range = None \/ custom_range = <<>> THEN None
               ELSE custom_range]

\* The server's answers to the file-registration request: an HTTP status, the
\* protocol status of the body of a 200, a new nonce or none.
DownloadInfoResponses ==
    { r \in [kind : {"download_info"}, status_code : {200, 500},
             status : {0, 200, 400}, nonce : {0, server + 1}] :
        (r.status_code = 200) <=> (r.status # 0) }

\* The download server's answers to the ranged GET: an HTTP status, the
\* headers Content-Length and Content-Range, which may be missing, and the
\* bytes of the body (one cipher block here).
UpstreamHeaders ==
    { h \cup g : h \in {{}, {<<"Content-Length", <<"1", "0">>>>}},
                 g \in {{}, {<<"Content-Range", <<"bytes 0-9/10">>>>}} }

DownloadFileResponses ==
    [kind : {"download"}, status_code : {200, 206, 403}, headers : UpstreamHeaders,
     body : { [i \in 1..BlockSize |-> i % 2] }]

\* dict.get(key, default) and "key in dict" on headers given as a set of pairs
HasHeader(headers, name) == \E h \in headers : h[1] = name
HeaderGet(headers, name, default) ==
    IF HasHeader(headers, name) THEN (CHOOSE h \in headers : h[1] = name)[2]
    ELSE default

----------------------------------------------------------------------------
(* start_decryptor, samfetch/crypto.py, as spec.md section 4.3 describes it *)

\* A byte.
ByteValues == 0..1

\* The cipher keeps a running state, the previous block of ciphertext, that
\* starts as a block of zeroes.
ZeroBlock == [i \in 1..BlockSize |-> 0]

RECURSIVE sum(_)
sum(bytes) == IF bytes = <<>> THEN 0 ELSE Head(bytes) + sum(Tail(bytes))

\* The decryption of one block of ciphertext under a key and a running state.
decrypt_block(key, state, block) ==
    [i \in 1..BlockSize |-> (block[BlockSize + 1 - i] + state[i] + sum(key)) % 2]

\* block k of a ciphertext
block_of(ciphertext, k) ==
    SubSeq(ciphertext, (k - 1) * BlockSize + 1, k * BlockSize)

\* plaintext[i] of the ciphertext decrypted as a whole
decrypt_byte(key, ciphertext, i) ==
    LET k == ((i - 1) \div BlockSize) + 1
    IN  decrypt_block(key,
                      IF k = 1 THEN ZeroBlock ELSE block_of(ciphertext, k - 1),
                      block_of(ciphertext, k))[((i - 1) % BlockSize) + 1]

\* A ciphertext of whole blocks, decrypted as a single block of data.
decrypt(key, ciphertext) ==
    [i \in 1..Len(ciphertext) |-> decrypt_byte(key, ciphertext, i)]

\* The pipeline: whether it decrypts and with what key, the bytes the network
\* has not delivered yet, the partial block held between chunks, the cipher's
\* running state, and the bytes sent to the consumer.
NoStream == [kind |-> "none"]
NewStream(decrypting, key, body) ==
    [kind |-> "stream", decrypting |-> decrypting, key |-> key, pending |-> body,
     buffer |-> <<>>, state |-> ZeroBlock, sent |-> <<>>]

\* The pipeline takes the whole blocks out of the data it holds, decrypts and
\* sends them, and keeps the rest.
RECURSIVE feed(_, _)
feed(st, data) ==
    IF Len(data) < BlockSize THEN [st EXCEPT !.buffer = data]
    ELSE LET block == SubSeq(data, 1, BlockSize) IN
         feed([st EXCEPT !.sent = st.sent \o decrypt_block(st.key, st.state, block),
                         !.state = block],
              SubSeq(data, BlockSize + 1, Len(data)))

\* on_chunk with every chunk decrypted on its own: what a chunk leaves over
\* is not carried to the next.
on_chunk_PerChunk(st, chunk) ==
    IF ~st.decrypting THEN [st EXCEPT !.sent = st.sent \o chunk]
    ELSE feed([st EXCEPT !.buffer = <<>>], chunk)

\* A chunk arrives: it is sent on as it is, or decrypted behind what was held.
on_chunk(st, chunk) ==
    IF ~st.decrypting THEN [st EXCEPT !.sent = st.sent \o chunk]
    ELSE feed(st, st.buffer \o chunk)

----------------------------------------------------------------------------
(* download_binary, the handler *)

DownloadIdle ==
    [pc |-> "idle", decrypt_key |-> None, filename_arg |-> None, range |-> None,
     session |-> NoSession, download_info |-> NoResponse,
     clients_open |-> 0, nonce_sent |-> 0, info_sent |-> 0, file_sent |-> 0,
     inflight |-> NoRequest, range_parsed |-> NoResult,
     download_file |-> NoResponse, response |-> NoResponse, stream |-> NoStream,
     raising |-> NoResult, result |-> NoResult]

\* routes.py:215-228: the request arrives; the handler runs to its first await.
DownloadStartWith(keys, filenames, ranges) ==
    /\ download.pc = "idle"
    /\ \E decrypt_key \in keys, filename_arg \in filenames, range \in ranges :
         download' = [download EXCEPT !.decrypt_key = decrypt_key,
                                      !.filename_arg = filename_arg,
                                      !.range = range,
                                      !.clients_open = 1,
                                      !.nonce_sent = 1,
                                      !.inflight = get_nonce,
                                      !.pc = "nonce_wait"]
    /\ UNCHANGED <<listing, call, global_imei_bound, global_imei, server, latest, details>>

DownloadStart == DownloadStartWith(DecryptKeys, FilenameArgs, RangeHeaders)

\* routes.py:228-236: the nonce arrives and the file is registered.
DownloadNonce ==
    /\ download.pc = "nonce_wait"
    /\ LET session == from_response(NonceResponse) IN
       download' = [download EXCEPT !.session = session,
                                    !.info_sent = download.info_sent + 1,
                                    !.inflight = get_download(session),
                                    !.pc = "info_wait"]
    /\ server' = server + 1
    /\ UNCHANGED <<listing, call, global_imei_bound, global_imei, latest, details>>

\* routes.py:228, 234, 255: a request fails in the transport; the exception
\* leaves the handler, which closes nothing.
DownloadSendFails ==
    /\ download.pc \in {"nonce_wait", "info_wait", "file_wait"}
    /\ download' = [download EXCEPT !.inflight = NoRequest, !.pc = "done",
                                    !.result = Raise("TransportError")]
    /\ UNCHANGED <<listing, call, global_imei_bound, global_imei, server, latest, details>>

\* routes.py:251
range_invalid(START_RANGE, END_RANGE, DECRYPT_ENABLED) ==
    (START_RANGE = -1) \/ (END_RANGE = -1) \/ (DECRYPT_ENABLED /\ (END_RANGE # 0))

\* AfterDownloadInfo without the check of the body's protocol status
\* (routes.py:243-245): the range is checked and the GET sent after any HTTP 200.
AfterDownloadInfo_IgnoresProtocolStatus(f) ==
    LET refreshed == [f EXCEPT !.session = refresh_session(f.session, f.download_info)]
        closing == [refreshed EXCEPT !.inflight = NoRequest, !.pc = "closing"]
        parsed == parse_range_header(IF f.range = None THEN BytesPrefix \o <<"0", "-">>
                                     ELSE f.range)
    IN  IF f.download_info.status_code = 200
        THEN IF parsed.kind = "error"
             THEN [refreshed EXCEPT !.inflight = NoRequest, !.pc = "done",
                                    !.range_parsed = parsed,
                                    !.result = parsed]
             ELSE IF (parsed.value[1] = -1) \/ (parsed.value[2] = -1)
                     \/ (DECRYPT_ENABLED_of(f.decrypt_key) /\ (parsed.value[2] # 0))
             THEN [closing EXCEPT !.range_parsed = parsed,
                                  !.raising = make_error("RANGE_HEADER_INVALID", 416)]
             ELSE [refreshed EXCEPT
                     !.range_parsed = parsed,
                     !.file_sent = f.file_sent + 1,
                     !.inflight = start_download(refreshed.session, f.range),
                     !.pc = "file_wait"]
        ELSE [refreshed EXCEPT !.inflight = NoRequest, !.pc = "done",
                !.result = make_error("KIES_SERVER_OUTER_ERROR",
                                      f.download_info.status_code)]

\* routes.py:237-255 and 299-300: the session is refreshed with the
\* registration's response; a 200 with protocol status 200 and a valid range
\* leads to the ranged GET, everything else to an exception, which the handler
\* raises at once (a range that is no number, an HTTP status other than 200) or
\* once its client is closed ("raising", lines 244 and 252).  range_parsed is
\* what line 249 got from parse_range_header: START_RANGE and END_RANGE, or
\* the exception.
AfterDownloadInfo(f) ==
    LET refreshed == [f EXCEPT !.session = refresh_session(f.session, f.download_info)]
        closing == [refreshed EXCEPT !.inflight = NoRequest, !.pc = "closing"]
        parsed == parse_range_header(IF f.range = None THEN BytesPrefix \o <<"0", "-">>
                                     ELSE f.range)
    IN  IF f.download_info.status_code = 200
        THEN IF f.download_info.status # 200
             THEN [closing EXCEPT
                     !.raising = make_error("KIES_SERVER_ERROR", f.download_info.status)]
             ELSE IF parsed.kind = "error"
             THEN [refreshed EXCEPT !.inflight = NoRequest, !.pc = "done",
                                    !.range_parsed = parsed,
                                    !.result = parsed]
             ELSE IF range_invalid(parsed.value[1], parsed.value[2],
                                   DECRYPT_ENABLED_of(f.decrypt_key))
             THEN [closing EXCEPT !.range_parsed = parsed,
                                  !.raising = make_error("RANGE_HEADER_INVALID", 416)]
             ELSE [refreshed EXCEPT
                     !.range_parsed = parsed,
                     !.file_sent = f.file_sent + 1,
                     !.inflight = start_download(refreshed.session, f.range),
                     !.pc = "file_wait"]
        ELSE [refreshed EXCEPT !.inflight = NoRequest, !.pc = "done",
                !.result = make_error("KIES_SERVER_OUTER_ERROR",
                                      f.download_info.status_code)]

\* routes.py:234-255: the registration's response arrives; the handler runs to
\* its next await.
DownloadInfoWith(responses) ==
    /\ download.pc = "info_wait"
    /\ \E download_info \in responses :
         download' = AfterDownloadInfo([download EXCEPT !.download_info = download_info])
    /\ server' = server + 1
    /\ UNCHANGED <<listing, call, global_imei_bound, global_imei, latest, details>>

DownloadInfo == DownloadInfoWith(DownloadInfoResponses)

\* ResponseHeaders without line 284-285: Content-Length stays when the file
\* is decrypted.
ResponseHeaders_KeepsLength(f, download_file) ==
    LET DECRYPT_ENABLED == DECRYPT_ENABLED_of(f.decrypt_key)
        CUSTOM_FILENAME == CUSTOM_FILENAME_of(f.filename_arg)
        name == IF CUSTOM_FILENAME # None /\ CUSTOM_FILENAME # <<>>
                THEN CUSTOM_FILENAME
                ELSE IF ~DECRYPT_ENABLED THEN Filename
                ELSE without(without(Filename, DotEnc4), DotEnc2)
    IN  { <<"Content-Disposition", AttachmentFilename \o name \o <<"\"">>>>,
          <<"Accept-Ranges", <<"bytes">>>>,
          <<"Connection", <<"keep-alive">>>>,
          <<"Content-Length",
            HeaderGet(download_file.headers, "Content-Length", <<>>)>> }
        \cup (IF HasHeader(download_file.headers, "Content-Range")
              THEN { <<"Content-Range",
                       HeaderGet(download_file.headers, "Content-Range", <<>>)>> }
              ELSE {})

\* routes.py:270-285: the headers of the response to the consumer
ResponseHeaders(f, download_file) ==
    LET DECRYPT_ENABLED == DECRYPT_ENABLED_of(f.decrypt_key)
        CUSTOM_FILENAME == CUSTOM_FILENAME_of(f.filename_arg)
        name == IF CUSTOM_FILENAME # None /\ CUSTOM_FILENAME # <<>>
                THEN CUSTOM_FILENAME
                ELSE IF ~DECRYPT_ENABLED THEN Filename
                ELSE without(without(Filename, DotEnc4), DotEnc2)
    IN  { <<"Content-Disposition", AttachmentFilename \o name \o <<"\"">>>>,
          <<"Accept-Ranges", <<"bytes">>>>,
          <<"Connection", <<"keep-alive">>>> }
        \cup (IF DECRYPT_ENABLED THEN {}
              ELSE { <<"Content-Length",
                       HeaderGet(download_file.headers, "Content-Length", <<>>)>> })
        \cup (IF HasHeader(download_file.headers, "Content-Range")
              THEN { <<"Content-Range",
                       HeaderGet(download_file.headers, "Content-Range", <<>>)>> }
              ELSE {})

\* AfterDownloadFile with the response to the consumer opened before the
\* status of the GET is looked at.
AfterDownloadFile_RespondsFirst(f, download_file) ==
    LET DECRYPT_ENABLED == DECRYPT_ENABLED_of(f.decrypt_key)
        responded ==
            [f EXCEPT !.download_file = download_file, !.inflight = NoRequest,
                      !.response =
                         [kind |-> "response",
                          status |-> download_file.status_code,
                          content_type |-> IF DECRYPT_ENABLED THEN "application/zip"
                                           ELSE "application/octet-stream",
                          headers |-> ResponseHeaders(f, download_file)]]
    IN  IF download_file.status_code \notin {200, 206}
        THEN [responded EXCEPT !.pc = "closing",
                               !.raising = make_error("KIES_SERVER_ERROR",
                                                      download_file.status_code)]
        ELSE [responded EXCEPT !.pc = "responding"]

\* routes.py:263-292: with a status other than 200 and 206 the handler closes
\* its client to raise after it; else it opens the response to the consumer
\* with the GET's status and waits for it.
AfterDownloadFile(f, download_file) ==
    LET DECRYPT_ENABLED == DECRYPT_ENABLED_of(f.decrypt_key)
        g == [f EXCEPT !.download_file = download_file, !.inflight = NoRequest]
    IN  IF download_file.status_code \notin {200, 206}
        THEN [g EXCEPT !.pc = "closing",
                       !.raising = make_error("KIES_SERVER_ERROR",
                                              download_file.status_code)]
        ELSE [g EXCEPT !.pc = "responding",
                       !.response =
                          [kind |-> "response",
                           status |-> download_file.status_code,
                           content_type |-> IF DECRYPT_ENABLED THEN "application/zip"
                                            ELSE "application/octet-stream",
                           headers |-> ResponseHeaders(f, download_file)]]

\* routes.py:255-292: the ranged GET's response arrives; the handler runs to
\* its next await.
DownloadFileWith(responses) ==
    /\ download.pc = "file_wait"
    /\ \E download_file \in responses :
         download' = AfterDownloadFile(download, download_file)
    /\ UNCHANGED <<listing, call, global_imei_bound, global_imei, server, latest, details>>

DownloadFile == DownloadFileWith(DownloadFileResponses)

\* routes.py:244-245, 252-253, 266-267: the client is closed and the handler
\* raises.
DownloadClosed ==
    /\ download.pc = "closing"
    /\ download' = [download EXCEPT !.clients_open = download.clients_open - 1,
                                    !.pc = "done",
                                    !.raising = NoResult,
                                    !.result = download.raising]
    /\ UNCHANGED <<listing, call, global_imei_bound, global_imei, server, latest, details>>

\* routes.py:293-298: the response to the consumer is open; the pipeline is
\* started with the key, unless the key is not hexadecimal: then bytes.fromhex
\* raises.
DownloadResponded ==
    /\ download.pc = "responding"
    /\ LET DECRYPT_ENABLED == DECRYPT_ENABLED_of(download.decrypt_key)
           key == IF DECRYPT_ENABLED THEN fromhex(download.decrypt_key)
                  ELSE Value(<<>>)
       IN  download' =
             IF key.kind = "error"
             THEN [download EXCEPT !.pc = "done", !.result = key]
             ELSE [download EXCEPT
                     !.pc = "streaming",
                     !.stream = NewStream(DECRYPT_ENABLED, key.value,
                                          download.download_file.body)]
    /\ UNCHANGED <<listing, call, global_imei_bound, global_imei, server, latest, details>>

\* routes.py:293-298, inside start_decryptor: the network delivers the next
\* chunk, of any size.
StreamChunk ==
    /\ download.pc = "streaming"
    /\ download.stream.pending # <<>>
    /\ \E n \in 1..Len(download.stream.pending) :
         LET pending == download.stream.pending
             chunk == SubSeq(pending, 1, n)
             rest == SubSeq(pending, n + 1, Len(pending))
         IN  download' = [download EXCEPT
                            !.stream = on_chunk([download.stream EXCEPT !.pending = rest],
                                                chunk)]
    /\ UNCHANGED <<listing, call, global_imei_bound, global_imei, server, latest, details>>

\* samfetch.crypto.start_decryptor at its return: it was handed the client
\* (routes.py:297), and has closed it or left it open.
start_decryptor_returned(f) ==
    { [f EXCEPT !.clients_open = n] : n \in {f.clients_open - 1, f.clients_open} }

\* routes.py:293-300: start_decryptor has streamed the file and returns; the
\* handler closes nothing, leaves the "if" and reaches the raise of line 300.
DownloadStreamed ==
    /\ download.pc = "streaming"
    /\ download.stream.pending = <<>>
    /\ \E returned \in start_decryptor_returned(download) :
         download' = [returned EXCEPT
                        !.pc = "done",
                        !.result = make_error("KIES_SERVER_OUTER_ERROR",
                                              download.download_info.status_code)]
    /\ UNCHANGED <<listing, call, global_imei_bound, global_imei, server, latest, details>>

----------------------------------------------------------------------------
(* The process: no request has been served, "global_imei" is not bound. *)

----------------------------------------------------------------------------
(* The KiesUtils functions called on their own, kies.py:240-282 *)

NoCall == [fn |-> "none"]

\* The firmware strings given to parse_firmware: every string of 1 to
\* MaxComponents components that are empty, "A" or "B".
Components == { <<>>, <<"A">>, <<"B">> }
FirmwareStrings == UNION { [1..n -> Components] : n \in 1..MaxComponents }

CallParseFirmware ==
    /\ call = NoCall
    /\ \E firmware \in FirmwareStrings :
         call' = [fn |-> "parse_firmware", arg |-> firmware,
                  result |-> parse_firmware(firmware)]
    /\ UNCHANGED <<global_imei_bound, global_imei, server, latest, details,
                   download, listing>>

\* The headers given to parse_range_header: the Range headers of the model.
CallParseRangeHeader ==
    /\ call = NoCall
    /\ \E header \in RangeHeaders \ {None} :
         call' = [fn |-> "parse_range_header", arg |-> header,
                  result |-> parse_range_header(header)]
    /\ UNCHANGED <<global_imei_bound, global_imei, server, latest, details,
                   download, listing>>

\* The firmware strings given to read_firmware: a first component of up to
\* MaxPdaLen characters (a class letter, a letter, a digit or a lowercase
\* letter each), followed by 2, 3 or 4 components "B".
PdaChars == { "S", "A", "1", "x" }
FirstComponents == UNION { [1..n -> PdaChars] : n \in 0..MaxPdaLen }
BuildStrings ==
    { <<first>> \o rest : first \in FirstComponents,
                          rest \in { <<B, B>>, <<B, B, B>>, <<B, B, B, B>> } }

CallReadFirmware ==
    /\ call = NoCall
    /\ \E firmware \in BuildStrings :
         call' = [fn |-> "read_firmware", arg |-> firmware,
                  result |-> read_firmware(firmware)]
    /\ UNCHANGED <<global_imei_bound, global_imei, server, latest, details,
                   download, listing>>

Init ==
    /\ global_imei_bound = FALSE
    /\ global_imei = None
    /\ server = 0
    /\ latest = LatestIdle
    /\ details = DetailsIdle
    /\ download = DownloadIdle
    /\ listing = ListingIdle
    /\ call = NoCall

Next ==
    \/ LatestStart
    \/ LatestManifest
    \/ LatestClosed
    \/ DetailsStart
    \/ DetailsNonce
    \/ DetailsNonceFails
    \/ DetailsBinaryInfo
    \/ DetailsClosed
    \/ DetailsBinaryInfoFails
    \/ DetailsClosedFailed

Spec == Init /\ [][Next]_vars

\* One download, for what is said of download_binary alone.
NextDownload ==
    \/ DownloadStart
    \/ DownloadNonce
    \/ DownloadSendFails
    \/ DownloadInfo
    \/ DownloadFile
    \/ DownloadClosed
    \/ DownloadResponded
    \/ StreamChunk
    \/ DownloadStreamed

SpecDownload == Init /\ [][NextDownload]_vars

\* The files streamed: 1 to MaxBlocks blocks of ciphertext.
Ciphertexts == UNION { [1..(n * BlockSize) -> ByteValues] : n \in 1..MaxBlocks }

\* A download of a whole file that the server accepts, with or without a key.
StreamStart == DownloadStartWith(DecryptKeys, {None}, {None})
StreamInfo ==
    DownloadInfoWith({ r \in DownloadInfoResponses :
                         r.status_code = 200 /\ r.status = 200 /\ r.nonce = 0 })
StreamFile ==
    DownloadFileWith([kind : {"download"}, status_code : {200}, headers : {{}},
                      body : Ciphertexts])

\* One download of a whole file, for what is said of the streaming alone.
NextStream ==
    \/ StreamStart
    \/ DownloadNonce
    \/ StreamInfo
    \/ StreamFile
    \/ DownloadResponded
    \/ StreamChunk
    \/ DownloadStreamed

SpecStream == Init /\ [][NextStream]_vars

\* One call of a KiesUtils function, for what is said of the function alone.
NextKiesUtils ==
    \/ CallParseFirmware
    \/ CallParseRangeHeader
    \/ CallReadFirmware

\* One listing, for what is said of get_firmware_list alone.
NextList ==
    \/ ListStart
    \/ ListManifest
    \/ ListClosed

SpecList == Init /\ [][NextList]_vars

SpecKiesUtils == Init /\ [][NextKiesUtils]_vars

----------------------------------------------------------------------------
(* Properties of get_binary_details *)

\* The lookup has ended by a response's status or by the end of the loop,
\* not by an exception of the transport, of the source of identities
\* (web/tacs.csv, the generator) or before the loop.
DetailsEnded ==
    /\ details.pc = "done"
    /\ details.result.kind = "error" =>
          details.result.error \notin {"TransportError", "NameError", "NotFound",
                                       "FileNotFoundError", "TypeError"}

\* The identities the generator can return for what web/tacs.csv holds for a
\* model of the route.
GeneratedImeis ==
    LET rows == { read_imei_data(csvfile, model) :
                     csvfile \in TacsFiles, model \in Models }
        outcomes == UNION { generate_random_imei(row.value) :
                              row \in { r \in rows : r.kind = "value" } }
    IN  { g.value : g \in { o \in outcomes : o.kind = "value" } }

DetailsSucceeded == details.pc = "done" /\ details.result.kind \in {"json", "redirect"}

All408(statuses) == \A i \in 1..Len(statuses) : statuses[i] = S408

\* C1: while every binary-info response is a 408 the lookup neither succeeds
\* nor goes beyond 5 nonce requests and 5 binary-info requests, and it ends, after
\* exactly 5 of each, with MAX_RETRY_EXCEEDED.
C1_Always408 ==
    All408(details.statuses) =>
        /\ details.nonce_sent <= 5 /\ details.binary_sent <= 5
        /\ ~DetailsSucceeded
        /\ DetailsEnded =>
              /\ details.nonce_sent = 5 /\ details.binary_sent = 5
              /\ Len(details.statuses) = 5
              /\ details.result = make_error("MAX_RETRY_EXCEEDED", 500)

C1_Witness ==
    /\ details.pc = "done"
    /\ Len(details.statuses) = 5 /\ All408(details.statuses)
    /\ details.result.kind = "error" /\ details.result.error = "MAX_RETRY_EXCEEDED"

\* C2, as claimed: the first attempt k answered with status 200 is the last
\* one: k nonce requests and k binary-info requests were sent, the lookup
\* succeeds, its metadata is attempt k's response and its key comes from the
\* session made of attempt k's nonce.  The code raises IndexError after such a
\* 200 when read_firmware_dict cannot decode the firmware of the JSON answer.
C2_AsClaimed ==
    \A k \in 1..Len(details.statuses) :
        ( /\ details.pc = "done"
          /\ details.statuses[k] = S200
          /\ All408(SubSeq(details.statuses, 1, k - 1)) ) =>
            /\ Len(details.statuses) = k
            /\ details.nonce_sent = k /\ details.binary_sent = k
            /\ DetailsSucceeded
            /\ details.result.metadata.status = S200
            /\ details.result.metadata = details.binary_info
            /\ details.session = SessionOf(details.nonces[k])
            /\ details.result.decrypt_key =
                  (IF details.result.metadata.v4
                   THEN getv4key(SessionOf(details.nonces[k]))
                   ELSE getv2key(SessionOf(details.nonces[k])))

\* C3: a 401 ends the lookup at once with UNAUTHORIZED, any status but 200, 408
\* and 401 ends it at once with UNKNOWN_ERROR and that status as its code: the
\* handler closes its client and raises; no request follows and
\* MAX_RETRY_EXCEEDED is not reported.
C3_FailsImmediately ==
    \A k \in 1..Len(details.statuses) :
        details.statuses[k] \notin {S200, S408} =>
            /\ Len(details.statuses) = k
            /\ details.pc \in {"closing", "done"}
            /\ details.inflight = NoRequest
            /\ details.nonce_sent = k /\ details.binary_sent = k
            /\ details.pc = "done" =>
                  details.result =
                  (IF details.statuses[k] = S401 THEN make_error("UNAUTHORIZED", 401)
                   ELSE make_error("UNKNOWN_ERROR", int(details.statuses[k]).value))

C3_Witness ==
    /\ details.pc = "done"
    /\ Len(details.statuses) = 2
    /\ details.statuses[2] = <<"0", "4", "0", "8">>
    /\ details.result = make_error("UNKNOWN_ERROR", 408)

\* C8: the lookup takes the supplied identity it finds at its start (the module
\* global, copied into request_imei); once it has found one, every
\* binary-info request it sends carries that identity, whatever the module
\* global has become since; when it has found none, the identity of each attempt
\* is one the generator made for the model's TAC.
C8_IdentityPerLookup ==
    /\ [][ (details.pc = "idle" /\ details'.pc # "idle" /\ global_imei_bound)
            => details'.request_imei = global_imei ]_vars
    /\ []( /\ details.pc \in {"nonce_wait", "binary_wait"} =>
                IF details.request_imei # None
                THEN details.imei = details.request_imei
                ELSE /\ Value(details.imei) \in generate_random_imei(details.imei_data)
                     /\ details.imei \in GeneratedImeis
           /\ details.inflight.kind = "binary_info" =>
                /\ details.inflight.imei = details.imei
                /\ details.attempt \in 1..5 )

C8_Witness ==
    /\ details.inflight.kind = "binary_info"
    /\ details.attempt = 3
    /\ details.request_imei \in SuppliedImeis
    /\ global_imei # details.request_imei
    /\ details.inflight.imei = details.request_imei

\* C9: with generated identities, the attempt that follows a 408 submits an
\* identity other than the rejected one.
C9_AsClaimed ==
    [][ ( /\ details.pc = "closing" /\ details'.pc = "nonce_wait"
          /\ details.request_imei = None )
        => details'.imei # details.imei ]_vars

\* C10: an attempt is one nonce request and then one binary-info request signed
\* by the session made of that nonce; never two requests at once; the nonce
\* request of attempt n+1 follows a 408 for attempt n.
C10_SequentialAttempts ==
    /\ details.nonce_sent =
          (IF details.pc = "done" /\ details.result = Raise("TypeError")
           THEN details.attempt - 1 ELSE details.attempt)
    /\ details.binary_sent = Len(details.nonces)
    /\ details.binary_sent \in {details.nonce_sent - 1, details.nonce_sent}
    /\ \A i \in 1..Len(details.nonces), j \in 1..Len(details.nonces) :
          i # j => details.nonces[i] # details.nonces[j]
    /\ details.pc = "nonce_wait" =>
          /\ details.inflight = get_nonce
          /\ details.binary_sent = details.attempt - 1
          /\ Len(details.statuses) = details.attempt - 1
          /\ All408(details.statuses)
    /\ details.pc = "binary_wait" =>
          /\ details.inflight.kind = "binary_info"
          /\ details.inflight.nonce = details.nonces[details.attempt]
          /\ details.inflight.signature = SessionOf(details.nonces[details.attempt]).signature
          /\ Len(details.statuses) = details.attempt - 1
          /\ All408(details.statuses)
    /\ details.pc \in {"closing", "closing_failed"} =>
          /\ details.binary_sent = details.attempt
          /\ details.clients_open = 1
    /\ details.pc \in {"idle", "closing", "closing_failed", "done"} =>
          details.inflight = NoRequest

C10_Witness ==
    /\ details.pc = "binary_wait"
    /\ details.attempt = 4
    /\ details.inflight.nonce = details.nonces[4]

----------------------------------------------------------------------------
(* Properties across handlers *)

\* C5: the identity a lookup submits is its own request's "imei" argument, or
\* a generated one when the request has none; no other request's value.
C5_AsClaimed ==
    details.inflight.kind = "binary_info" =>
        IF details.args_imei # None
        THEN details.inflight.imei = details.args_imei
        ELSE details.inflight.imei \in GeneratedImeis

\* C6: a session that signed a request is refreshed with the response before it
\* is used again: before download_binary's ranged GET, and before
\* get_binary_details derives the version-4 key.
C6_AsClaimed ==
    /\ download.inflight.kind = "download" =>
          download.inflight.signature =
              refresh_session(download.session, download.download_info).signature
    /\ (DetailsSucceeded /\ details.result.encrypt_version = 4) =>
          details.result.decrypt_key =
              getv4key(refresh_session(
                  SessionOf(details.nonces[details.attempt]), details.binary_info))

----------------------------------------------------------------------------
(* Properties of download_binary *)

\* The download fails with the error: the handler has raised it, or it closes
\* its client to raise it.
DownloadFailsWith(error) ==
    \/ download.pc = "closing" /\ download.raising = error
    \/ download.pc = "done" /\ download.result = error

DownloadFails ==
    \/ download.pc = "closing" /\ download.raising.kind = "error"
    \/ download.pc = "done" /\ download.result.kind = "error"

DownloadRange ==
    parse_range_header(IF download.range = None THEN BytesPrefix \o <<"0", "-">>
                       ELSE download.range)

\* C4: a download with "decrypt" and a Range whose end is not 0 ends with
\* RANGE_HEADER_INVALID and sends nothing.
C4_AsClaimed ==
    ( /\ download.pc # "idle"
      /\ download.decrypt_key # None
      /\ DownloadRange.kind = "value"
      /\ DownloadRange.value[2] # 0 )
    => /\ download.nonce_sent = 0 /\ download.info_sent = 0 /\ download.file_sent = 0
       /\ download.pc = "done" => download.result = make_error("RANGE_HEADER_INVALID", 416)

\* C7: a download sends the nonce request, the registration and the ranged GET
\* in this order and once each; the GET only after a registration answered with
\* HTTP 200 and protocol status 200 and a range that passed the check; a step
\* that fails ends the download with an error and nothing more is sent.
C7_RequestOrder ==
    /\ download.nonce_sent \in {0, 1}
    /\ download.info_sent \in {0, 1}
    /\ download.file_sent \in {0, 1}
    /\ download.info_sent <= download.nonce_sent
    /\ download.file_sent <= download.info_sent
    /\ download.info_sent = 1 => download.session # NoSession
    /\ download.inflight.kind = "nonce" => download.info_sent = 0
    /\ download.inflight.kind = "download_info" => download.file_sent = 0
    /\ download.file_sent = 1 =>
          /\ download.download_info # NoResponse
          /\ download.download_info.status_code = 200
          /\ download.download_info.status = 200
          /\ DownloadRange.kind = "value"
          /\ DownloadRange.value[1] # -1 /\ DownloadRange.value[2] # -1
          /\ download.decrypt_key # None => DownloadRange.value[2] = 0
    /\ ( /\ download.download_info # NoResponse
         /\ \/ download.download_info.status_code # 200
            \/ download.download_info.status # 200
            \/ DownloadRange.kind = "error"
            \/ -1 \in {DownloadRange.value[1], DownloadRange.value[2]}
            \/ download.decrypt_key # None /\ DownloadRange.value[2] # 0 )
       => /\ DownloadFails
          /\ download.file_sent = 0
    /\ (download.pc \in {"closing", "done"} /\ download.file_sent = 0) => DownloadFails

C7_Witness ==
    /\ download.pc = "streaming"
    /\ download.nonce_sent = 1 /\ download.info_sent = 1 /\ download.file_sent = 1
    /\ download.decrypt_key # None
    /\ download.range # None

----------------------------------------------------------------------------
(* C16 *)

\* C16, as claimed: parse_firmware gives, for every input of 3 or 4
\* components, exactly 4 components (a 3-component input gets the 1st as its
\* 4th, an empty 3rd is replaced by the 1st, nothing else changes), and for
\* every input of another component count it raises and returns no value.
\* The code returns an input of 5 components as it is.
C16_AsClaimed ==
    call.fn = "parse_firmware" =>
        LET f == call.arg
            r == call.result
        IN  IF Len(f) \in {3, 4}
            THEN /\ r.kind = "value"
                 /\ Len(r.value) = 4
                 /\ r.value[1] = f[1]
                 /\ r.value[2] = f[2]
                 /\ r.value[3] = (IF f[3] = <<>> THEN f[1] ELSE f[3])
                 /\ r.value[4] = (IF Len(f) = 3 THEN f[1] ELSE f[4])
            ELSE r.kind = "error"

----------------------------------------------------------------------------
(* C11 *)

\* C11: when the ranged GET is answered with a status other than 200 and 206,
\* download_binary ends with the upstream-rejected error (KIES_SERVER_ERROR)
\* that carries this status; no response to the consumer is opened and no
\* byte is streamed.
C11_UpstreamRejected ==
    (download.download_file.kind = "download"
        /\ download.download_file.status_code \notin {200, 206})
    => /\ DownloadFailsWith(make_error("KIES_SERVER_ERROR",
                                       download.download_file.status_code))
       /\ download.response = NoResponse
       /\ download.stream = NoStream

C11_Witness ==
    /\ download.download_file.kind = "download"
    /\ download.download_file.status_code = 403
    /\ download.file_sent = 1
    /\ download.result.kind = "error"
    /\ download.result.code = 403

----------------------------------------------------------------------------
(* C13 *)

\* C13: in the response that download_binary opens, Content-Length is absent
\* whenever decryption is enabled; whenever it is disabled the upstream
\* Content-Length is forwarded unchanged (and nothing else is, but an empty
\* value when upstream has none); Content-Range is forwarded, unchanged,
\* exactly when the upstream response carries it.
C13_LengthAndRange ==
    download.response.kind = "response" =>
        LET up == download.download_file.headers
            out == download.response.headers
        IN  /\ download.decrypt_key # None
                => \A h \in out : h[1] # "Content-Length"
            /\ download.decrypt_key = None
                => /\ \A h \in up : h[1] = "Content-Length" => h \in out
                   /\ \A h \in out : h[1] = "Content-Length"
                        => \/ h \in up
                           \/ /\ \A g \in up : g[1] # "Content-Length"
                              /\ h[2] = <<>>
            /\ \A h \in up : h[1] = "Content-Range" => h \in out
            /\ \A h \in out : h[1] = "Content-Range" => h \in up

C13_Witness ==
    /\ download.response.kind = "response"
    /\ download.decrypt_key = None
    /\ <<"Content-Length", <<"1", "0">>>> \in download.response.headers
    /\ <<"Content-Range", <<"bytes 0-9/10">>>> \in download.response.headers

----------------------------------------------------------------------------
(* C12 *)

\* C12, as claimed: once download_binary validates the range, every Range
\* header that does not parse to two non-negative integers (no separator, a
\* part that is not a number, a negative value) and every header with a
\* non-zero end together with decryption ends the operation with the
\* range-invalid error and without the ranged GET; every other combination
\* passes and the GET is sent.  The code lets ValueError out for a part that is
\* not a number and accepts every negative value but -1.
C12_AsClaimed ==
    download.range_parsed.kind # "none" =>
        LET parsed == download.range_parsed
            invalid == \/ parsed.kind = "error"
                       \/ /\ parsed.kind = "value"
                          /\ \/ parsed.value[1] < 0
                             \/ parsed.value[2] < 0
                             \/ download.decrypt_key # None /\ parsed.value[2] # 0
        IN  IF invalid
            THEN /\ DownloadFailsWith(make_error("RANGE_HEADER_INVALID", 416))
                 /\ download.file_sent = 0
            ELSE download.file_sent = 1

----------------------------------------------------------------------------
(* C17 *)

\* whether the text is a non-negative integer in decimal digits
IsNumeral(text) == text # <<>> /\ \A i \in 1..Len(text) : text[i] \in Digits

\* C17: parse_range_header maps "bytes=a-b" to (a, b) and "bytes=a-" to (a, 0)
\* for all non-negative integers a and b, and every header without "-" to
\* (-1, -1); download_binary treats an absent Range header as "bytes=0-",
\* that is (0, 0).
C17_ParsedRange ==
    download.range_parsed.kind # "none" =>
        LET header == download.range
            parsed == download.range_parsed
            n == Len(header)
            p == Len(BytesPrefix)
        IN  IF header = None THEN parsed = Value(<<0, 0>>)
            ELSE /\ (\A i \in 1..n : header[i] # "-") => parsed = Value(<<-1, -1>>)
                 /\ \A i \in (p + 1)..n :
                      LET a == SubSeq(header, p + 1, i - 1)
                          b == SubSeq(header, i + 1, n)
                      IN  (/\ SubSeq(header, 1, p) = BytesPrefix
                           /\ header[i] = "-"
                           /\ IsNumeral(a)
                           /\ b = <<>> \/ IsNumeral(b))
                          => parsed = Value(<<DecimalValue(a),
                                              IF b = <<>> THEN 0 ELSE DecimalValue(b)>>)

\* "bytes=5-" has been parsed to (5, 0) and the GET sent
C17_Witness ==
    /\ download.range_parsed.kind = "value"
    /\ download.range # None
    /\ download.range = BytesPrefix \o <<"5", "-">>
    /\ download.range_parsed.value = <<5, 0>>
    /\ download.file_sent = 1

----------------------------------------------------------------------------
(* C18 *)

\* the last 6 characters of the first component, character i of them
Code(firmware) == LastChars(firmware[1], 6)

\* C18: for a firmware string of 4 components whose first component has at
\* least 6 characters, the last of them a digit or an uppercase letter,
\* read_firmware is a function of the last 6 characters c1..c6 of the first
\* component: when c1 is "U" or "S" it returns (c1c2, c3 - "A", c4 - "R" + 2018,
\* c5 - "A", the position of c6 in 0-9A-Z); else it returns no class and no
\* index, with year, month and revision from c4, c5 and c6 by the same formulas.
C18_Decoded ==
    (/\ call.fn = "read_firmware"
     /\ Len(call.arg) = 4
     /\ Len(call.arg[1]) >= 6
     /\ Contains(DigitsAndUppercase, call.arg[1][Len(call.arg[1])]))
    => LET c == Code(call.arg)
           year == ord(c[4]) - ord("R") + 2018
           month == ord(c[5]) - ord("A")
           revision == index(DigitsAndUppercase, c[6])
       IN  /\ call.result.kind = "value"
           /\ call.result.value[3] = year
           /\ call.result.value[4] = month
           /\ call.result.value[5] = revision
           /\ IF c[1] \in {"U", "S"}
              THEN /\ call.result.value[1] = <<c[1], c[2]>>
                   /\ call.result.value[2] = Some(ord(c[3]) - ord("A"))
              ELSE /\ call.result.value[1] = None
                   /\ call.result.value[2] = None

\* the prefix branch has been taken on a first component of 7 characters
C18_Witness ==
    /\ call.fn = "read_firmware"
    /\ Len(call.arg) = 4
    /\ call.arg[1] = <<"A", "S", "1", "A", "S", "A", "1">>
    /\ call.result = Value(<<<<"S", "1">>, Some(0), 2019, 0, 1>>)

----------------------------------------------------------------------------
(* C14 *)

\* the entries of <upgrade> in manifest order, one element or a list
Alternates(manifest) ==
    IF manifest.upgrade.type = "list" THEN manifest.upgrade.items
    ELSE IF manifest.upgrade.type = "dict" THEN <<manifest.upgrade.text>>
    ELSE <<>>

HasTwoSeparators(text) == Len(text) >= 3

\* a firmware string of 3 or 4 components in its normal form
Normalized(f) ==
    <<f[1], f[2], IF f[3] = <<>> THEN f[1] ELSE f[3],
      IF Len(f) = 3 THEN f[1] ELSE f[4]>>

\* C14: a listing is the normalized latest entry, then the alternate entries
\* in manifest order (normalized) without those of fewer than two separators;
\* the first element and no other is tagged is_latest; a single <value>
\* element gives what a list of that one element gives.
C14_Listing ==
    listing.result.kind = "json" =>
        LET manifest == listing.response.manifest
            body == listing.result.body
            kept == SelectSeq(Alternates(manifest), HasTwoSeparators)
        IN  /\ Len(body) = 1 + Len(kept)
            /\ body[1].firmware = Normalized(manifest.latest.text)
            /\ \A i \in 1..Len(kept) : body[i + 1].firmware = Normalized(kept[i])
            /\ "is_latest" \in DOMAIN body[1] /\ body[1].is_latest
            /\ \A i \in 2..Len(body) : "is_latest" \notin DOMAIN body[i]

\* a listing of a list of two alternates, the first of one separator (removed),
\* the second of 3 components (normalized)
C14_Witness ==
    /\ listing.result.kind = "json"
    /\ listing.response.manifest.upgrade.type = "list"
    /\ listing.response.manifest.upgrade.items = <<<<S1ASA1, B>>, <<S1ASA1, B, B>>>>
    /\ Len(listing.result.body) = 2
    /\ listing.result.body[2].firmware = <<S1ASA1, B, B, S1ASA1>>

----------------------------------------------------------------------------
(* C15 *)

\* C15, as claimed: for a manifest that arrives with HTTP 200, the listing
\* fails with the list-empty error if "versioninfo" is missing, and with the
\* cannot-parse error if it is there but holds no parseable latest entry (none,
\* an empty one, or one whose component count is not 3 or 4).  The code raises
\* IndexError or ValueError for a latest entry of a wrong component count.
C15_AsClaimed ==
    ( /\ listing.pc = "done"
      /\ listing.response.kind = "response"
      /\ listing.response.status_code = 200 )
    => LET manifest == listing.response.manifest
           unparseable == \/ ~manifest.has_latest
                          \/ manifest.latest.type = "NoneType"
                          \/ Len(manifest.latest.text) \notin {3, 4}
       IN  /\ ~manifest.versioninfo
               => listing.result = make_error("FIRMWARE_LIST_EMPTY", 404)
           /\ (manifest.versioninfo /\ unparseable)
               => listing.result = make_error("FIRMWARE_CANT_PARSE", 404)

----------------------------------------------------------------------------
(* C19 *)

\* The listing of region EUX and model SM-G960F has been answered with a
\* manifest whose latest entry is
\* "G960FXXU1ASCD/G960FOXM1ASC1/G960FXXU1ASCD/G960FXXU1ASCD", without alternates.
G960FListed ==
    /\ listing.pc = "done"
    /\ listing.request = list_firmware("EUX", "SM-G960F")
    /\ listing.response.kind = "response"
    /\ listing.response.status_code = 200
    /\ listing.response.manifest.versioninfo
    /\ listing.response.manifest.has_latest
    /\ listing.response.manifest.latest.type \in {"str", "dict"}
    /\ listing.response.manifest.latest.text
         = <<G960FXXU1ASCD, G960FOXM1ASC1, G960FXXU1ASCD, G960FXXU1ASCD>>
    /\ listing.response.manifest.upgrade = NoElement

\* the listing is one entry, tagged is_latest, whose "date" starts with the year
OneLatestOfYear(year) ==
    /\ listing.result.kind = "json"
    /\ Len(listing.result.body) = 1
    /\ "is_latest" \in DOMAIN listing.result.body[1]
    /\ listing.result.body[1].is_latest
    /\ listing.result.body[1].pda.date = year \o <<".", "2">>

\* C19, as claimed: that listing is exactly one entry, tagged is_latest, whose
\* decoded build info has the year 2018.
C19_AsClaimed == G960FListed => OneLatestOfYear(<<"2", "0", "1", "8">>)

\* C19, amended: that listing is exactly one entry, tagged is_latest, whose
\* decoded build info has the year 2019 (the 4th character of the code
\* "U1ASCD" is "S", one after "R").
C19_Year2019 == G960FListed => OneLatestOfYear(<<"2", "0", "1", "9">>)

C19_Witness ==
    /\ G960FListed
    /\ listing.result.kind = "json"
    /\ listing.result.body[1].firmware
         = <<G960FXXU1ASCD, G960FOXM1ASC1, G960FXXU1ASCD, G960FXXU1ASCD>>
    /\ listing.result.body[1].pda.bl = <<"U", "1">>

----------------------------------------------------------------------------
(* C20 *)

\* C20: for every ciphertext and every split of it into network chunks, what
\* the pipeline has sent to the consumer is the decryption of the ciphertext
\* as a single block, up to the last whole cipher block delivered; between
\* chunks the pipeline holds the bytes delivered after that block and nothing
\* else, less than one block.
C20_StreamedEqualsWhole ==
    (download.stream.kind = "stream" /\ download.stream.decrypting)
    => LET body == download.download_file.body
           delivered == Len(body) - Len(download.stream.pending)
           whole == (delivered \div BlockSize) * BlockSize
       IN  /\ download.stream.sent
                = SubSeq(decrypt(download.stream.key, body), 1, whole)
           /\ download.stream.buffer = SubSeq(body, whole + 1, delivered)
           /\ Len(download.stream.buffer) < BlockSize

\* of a file of two blocks, a chunk has ended inside the second block: the
\* first block has been sent decrypted, one byte is held
C20_Witness ==
    /\ download.pc = "streaming"
    /\ download.stream.kind = "stream"
    /\ download.stream.decrypting
    /\ download.stream.key = <<11>>
    /\ Len(download.download_file.body) = 2 * BlockSize
    /\ Len(download.stream.buffer) = 1
    /\ download.stream.sent
         = SubSeq(decrypt(<<11>>, download.download_file.body), 1, BlockSize)
    /\ download.stream.sent # SubSeq(download.download_file.body, 1, BlockSize)

----------------------------------------------------------------------------
(* C21 *)

\* C21, as claimed: download_binary raises KIES_SERVER_OUTER_ERROR only when
\* the registration's HTTP status is not 200; a download whose ranged GET
\* returned 200 or 206 and whose stream was delivered to the end finishes
\* without an error.  The raise of routes.py:300 stands after the "if", and
\* the handler reaches it when the streaming returns.
C21_AsClaimed ==
    /\ (download.result.kind = "error"
            /\ download.result.error = "KIES_SERVER_OUTER_ERROR")
        => download.download_info.status_code # 200
    /\ (/\ download.pc = "done"
        /\ download.stream.kind = "stream"
        /\ download.stream.pending = <<>>
        /\ download.download_file.status_code \in {200, 206})
        => download.result.kind # "error"

----------------------------------------------------------------------------
(* C22 *)

\* C22, as claimed: get_binary_details never reads the module global
\* "global_imei" before it is bound; whatever the order of the requests, a
\* lookup does not fail on an undefined identity.  The global is bound only by
\* get_firmware_latest, so a lookup served first raises NameError.
C22_AsClaimed ==
    ~(/\ details.result.kind = "error"
      /\ details.result.error = "NameError")

----------------------------------------------------------------------------
(* C23 *)

\* C23, as claimed, for download_binary: when the handler raises one of its
\* errors before the streaming (protocol status not 200, invalid range, ranged
\* GET rejected, registration's HTTP status not 200), it has closed its
\* client.  The raise of routes.py:300 for a registration whose HTTP status
\* is not 200 has no aclose before it.
C23_AsClaimed ==
    (/\ download.pc = "done"
     /\ download.stream.kind = "none"
     /\ download.result.kind = "error"
     /\ download.result.error \in {"KIES_SERVER_ERROR", "RANGE_HEADER_INVALID",
                                   "KIES_SERVER_OUTER_ERROR"})
    => download.clients_open = 0

====
